---- MODULE Spec2Model ----
(***************************************************************************)
(* Model of the LE code generator (src/code_generator/generator.rs): the   *)
(* lowering of an AST to functions made of basic blocks.                   *)
(*                                                                         *)
(* Expression lowering is a pure operator returning the expression value   *)
(* and the instructions it emitted at the cursor; statement lowering is a  *)
(* machine with an explicit stack of the callers that wait for a code      *)
(* block (build_if_statement, build_while_loop, build_for_loop,            *)
(* build_function).  The top level of the AST is chosen in Init; the       *)
(* statements of a code block are the inputs of build_code_block's loop    *)
(* and are drawn one at a time.                                            *)
(***************************************************************************)
EXTENDS Integers, Sequences, FiniteSets, TLC

VARIABLES
    ast,      \* the translation unit handed to compile (bodies are drawn per statement)
    pc,       \* the pass compile is in: "globals", "structures", "externs", "functions", "done"
    idx,      \* index of the next item of the running pass
    result,   \* "running", "Ok", "panic" or the CompileError compile returned
    types,    \* type registry: sequence of [name, members] (insert_global_type)
    scopes,   \* symbol tables: sequence of frames, scopes[1] the global one
    module,   \* emitted functions: sequence of [name, ret, blocks (layout order)]
    blocks,   \* basic blocks by id: [fn, insts]
    cursor,   \* block the builder is positioned at the end of (0: none)
    ctx,      \* compiler_context: [current_function, return_variable, return_block]
    stack,    \* callers waiting for a code block, innermost last
    flag,     \* value a finished build_code_block hands to its caller: "none", "true", "false"
    stmt,     \* the statement build_code_block dispatched last, with what its lowering observed
    nstmts,   \* statements lowered so far
    lexer,    \* LELexer handed to the parser: what its calls answer, and what they consumed
    parsed    \* what parse_while_loop returned: [err, value], NotParsed before it is called

vars == <<ast, pc, idx, result, types, scopes, module, blocks, cursor, ctx, stack, flag, stmt, nstmts,
          lexer, parsed>>

(***************************************************************************)
(* Bounds of the model.                                                    *)
(***************************************************************************)
MaxStmts == 3
MaxDepth == 2

(***************************************************************************)
(* Types (LEBasicTypeEnum) and type declarators.                           *)
(***************************************************************************)
IntegerType == [k |-> "Integer"]
FloatType == [k |-> "Float"]
BoolType == [k |-> "Bool"]
StructType(name) == [k |-> "Struct", name |-> name]
ArrayType(elem, n) == [k |-> "Array", elem |-> elem, n |-> n]
NoType == [k |-> "Void"]

TypeIdentifier(name) == [k |-> "TypeIdentifier", name |-> name]
NoDeclarator == [k |-> "None"]

(***************************************************************************)
(* Expression values (ExpressionValue) and pointers.                       *)
(***************************************************************************)
Pointer(fn, name) == [fn |-> fn, name |-> name]
Left(ptr, ty) == [kind |-> "Left", ptr |-> ptr, ty |-> ty]
Right(ty, v) == [kind |-> "Right", ty |-> ty, v |-> v]
Unit == [kind |-> "Unit"]

\* Result<T>: the error ("none" for Ok), the value, and the instructions emitted at
\* the cursor on the way
Ok(value, insts) == [err |-> "none", value |-> value, insts |-> insts]
Err(e, insts) == [err |-> e, value |-> Unit, insts |-> insts]

\* the instructions emitted before `r` was computed stay emitted
After(insts, r) == [err |-> r.err, value |-> r.value, insts |-> insts \o r.insts]

\* `let x = r?; K(x)`: an error of r is returned at once
AndThen(r, K(_)) == IF r.err # "none" THEN r ELSE After(r.insts, K(r.value))

\* `r.unwrap()`: an error aborts the process
Unwrap(r) == IF r.err # "none" THEN Err("panic", r.insts) ELSE r

(***************************************************************************)
(* AST nodes (crate::ast::nodes).                                          *)
(***************************************************************************)
NumberLiteral(number, v) == [k |-> "NumberLiteral", number |-> number, v |-> v]
Identifier(name) == [k |-> "Identifier", name |-> name]
UnaryOperator(op, e) == [k |-> "UnaryOperator", op |-> op, expr |-> e]
BinaryOperator(op, l, r) == [k |-> "BinaryOperator", op |-> op, left |-> l, right |-> r]
CallExpression(name, params) == [k |-> "CallExpression", function_name |-> name, params |-> params]
ArrayInitializer(elements) == [k |-> "ArrayInitializer", elements |-> elements]
StructureInitializer(name, members) ==
    [k |-> "StructureInitializer", structure_name |-> name, member_initial_values |-> members]

Variable(name, decl, value) == [name |-> name, type_declarator |-> decl, value |-> value]
FunctionPrototype(name, params, ret) == [name |-> name, param_types |-> params, return_type |-> ret]
FunctionDefinition(proto, names) == [prototype |-> proto, param_names |-> names]
Structure(name, members) == [name |-> name, members |-> members]

(***************************************************************************)
(* Type registry (LEGenerator::get_generic_type, LEStructType).            *)
(***************************************************************************)
IsPrimitive(name) == name \in {"i32", "double", "bool"}

PrimitiveType(name) ==
    CASE name = "i32" -> IntegerType
      [] name = "double" -> FloatType
      [] OTHER -> BoolType

IsDeclared(reg, name) == \E i \in 1..Len(reg) : reg[i].name = name

\* resolve a declarator to a type
get_generic_type(decl, reg) ==
    IF decl.k # "TypeIdentifier" THEN Err("TypeNotFound", <<>>)
    ELSE IF IsPrimitive(decl.name) THEN Ok(PrimitiveType(decl.name), <<>>)
    ELSE IF IsDeclared(reg, decl.name) THEN Ok(StructType(decl.name), <<>>)
    ELSE Err("TypeNotFound", <<>>)

\* the ordered (name, type) members of a declared record
get_field_types(reg, name) == reg[CHOOSE i \in 1..Len(reg) : reg[i].name = name].members

\* Option<index>: the zero-based declaration index of a member, -1 for None
get_member_offset(members, name) ==
    IF \E i \in 1..Len(members) : members[i].name = name
    THEN (CHOOSE i \in 1..Len(members) : members[i].name = name) - 1
    ELSE -1

(***************************************************************************)
(* Symbol tables (compiler_context).                                       *)
(***************************************************************************)
VariableSymbol(name, ty, ptr) == [name |-> name, kind |-> "var", ty |-> ty, ptr |-> ptr]
FunctionSymbol(name, params, ret) == [name |-> name, kind |-> "fn", params |-> params, ret |-> ret]

InFrame(frame, name) == \E s \in frame : s.name = name

SymbolIn(frame, name) == CHOOSE s \in frame : s.name = name

RECURSIVE lookup(_, _, _)
\* first match walking the frames from the top (d) down to the global one
lookup(sc, name, d) ==
    IF d = 0 THEN Err("NotFound", <<>>)
    ELSE IF InFrame(sc[d], name) THEN Ok(SymbolIn(sc[d], name), <<>>)
    ELSE lookup(sc, name, d - 1)

get_variable(sc, name) ==
    AndThen(lookup(sc, name, Len(sc)),
            LAMBDA sym : IF sym.kind # "var" THEN Err("NotAnExpression", <<>>)
                         ELSE Ok(Left(sym.ptr, sym.ty), <<>>))

get_function(sc, name) ==
    IF InFrame(sc[1], name) /\ SymbolIn(sc[1], name).kind = "fn"
    THEN Ok(SymbolIn(sc[1], name), <<>>)
    ELSE Err("NotFound", <<>>)

\* insert into the top frame; the value is the new symbol tables
insert_local(sc, sym) ==
    IF InFrame(sc[Len(sc)], sym.name) THEN Err("Redefinition", <<>>)
    ELSE Ok([sc EXCEPT ![Len(sc)] = @ \cup {sym}], <<>>)

\* insert into the global frame; the value is the new symbol tables
insert_global(sc, sym) ==
    IF InFrame(sc[1], sym.name) THEN Err("Redefinition", <<>>)
    ELSE Ok([sc EXCEPT ![1] = @ \cup {sym}], <<>>)

push_block_table(sc) == Append(sc, {})
pop_block_table(sc) == SubSeq(sc, 1, Len(sc) - 1)

(***************************************************************************)
(* Value algebra (LEGenerator): read, store, assign and the operators.     *)
(***************************************************************************)
Load(ptr) == [op |-> "load", ptr |-> ptr]
Store(ptr, v) == [op |-> "store", ptr |-> ptr, v |-> v]
Alloca(ptr, ty) == [op |-> "alloca", ptr |-> ptr, ty |-> ty]
Op(name) == [op |-> name]
Call(name) == [op |-> "call", callee |-> name]
Br(target) == [op |-> "br", target |-> target]
CondBr(then, else) == [op |-> "condbr", then |-> then, else |-> else]
Ret(hasValue) == [op |-> "ret", value |-> hasValue]

IsTerminator(i) == i.op \in {"br", "condbr", "ret"}

\* an lvalue is loaded, an rvalue is itself, unit is no value
read_expression_value(ev) ==
    CASE ev.kind = "Right" -> Ok(ev, <<>>)
      [] ev.kind = "Left" -> Ok(Right(ev.ty, "%"), <<Load(ev.ptr)>>)
      [] OTHER -> Err("ValueExpected", <<>>)

\* store `ev` through `ptr` of pointee type `ty`
build_store(ptr, ty, ev) ==
    AndThen(read_expression_value(ev),
            LAMBDA v : IF v.ty # ty THEN Err("TypeMismatched", <<>>)
                       ELSE Ok(Unit, <<Store(ptr, v.v)>>))

\* assign: the left must be an lvalue; yields the pointer assigned through
build_assign(left, right) ==
    IF left.kind # "Left" THEN Err("TypeMismatched", <<>>)
    ELSE AndThen(build_store(left.ptr, left.ty, right), LAMBDA u : Ok(left, <<>>))

\* both operands read, then Check(l, r) on the two rvalues
WithOperands(left, right, Check(_, _)) ==
    AndThen(read_expression_value(left),
            LAMBDA l : AndThen(read_expression_value(right), LAMBDA r : Check(l, r)))

\* build_add, build_sub, build_mul, build_div, build_mod
build_arithmetic(op, left, right) ==
    WithOperands(left, right,
        LAMBDA l, r : IF l.ty # r.ty THEN Err("TypeMismatched", <<>>)
                      ELSE IF l.ty.k \notin {"Integer", "Float"}
                           THEN Err("NoSuitableBinaryOperator", <<>>)
                      ELSE Ok(Right(l.ty, "%"), <<Op(op)>>))

build_compare(op, left, right) ==
    WithOperands(left, right,
        LAMBDA l, r : IF l.ty # r.ty THEN Err("TypeMismatched", <<>>)
                      ELSE IF l.ty.k \notin {"Integer", "Float"}
                           THEN Err("NoSuitableBinaryOperator", <<>>)
                      ELSE Ok(Right(BoolType, "%"), <<Op(op)>>))

build_binary_logic(op, left, right) ==
    WithOperands(left, right,
        LAMBDA l, r : IF l.ty # BoolType \/ r.ty # BoolType
                      THEN Err("NoSuitableBinaryOperator", <<>>)
                      ELSE Ok(Right(BoolType, "%"), <<Op(op)>>))

build_neg(ev) ==
    AndThen(read_expression_value(ev),
            LAMBDA v : IF v.ty.k \notin {"Integer", "Float"}
                       THEN Err("NoSuitableUnaryOperator", <<>>)
                       ELSE Ok(Right(v.ty, "%"), <<Op("neg")>>))

\* field address of an lvalue of record type
build_dot(left, name, reg) ==
    IF left.kind # "Left" \/ left.ty.k # "Struct" THEN Err("TypeMismatched", <<>>)
    ELSE IF get_member_offset(get_field_types(reg, left.ty.name), name) < 0
         THEN Err("UnknownField", <<>>)
    ELSE Ok(Left([fn |-> left.ptr.fn, name |-> left.ptr.name, field |-> name],
                 get_field_types(reg, left.ty.name)[
                     get_member_offset(get_field_types(reg, left.ty.name), name) + 1].ty),
            <<Op("gep")>>)

RECURSIVE ReadArguments(_, _, _)
\* arguments i.. read and compared with the parameter types
ReadArguments(args, params, i) ==
    IF i > Len(args) THEN Ok(Unit, <<>>)
    ELSE AndThen(read_expression_value(args[i]),
                 LAMBDA v : IF v.ty # params[i] THEN Err("ArgumentMismatch", <<>>)
                            ELSE ReadArguments(args, params, i + 1))

build_call(function, args) ==
    IF Len(args) # Len(function.params) THEN Err("ArgumentMismatch", <<>>)
    ELSE AndThen(ReadArguments(args, function.params, 1),
                 LAMBDA u : Ok(IF function.ret = NoType THEN Unit ELSE Right(function.ret, "%"),
                               <<Call(function.name)>>))

(***************************************************************************)
(* Expression lowering.                                                    *)
(***************************************************************************)
RECURSIVE build_expression(_, _, _)
RECURSIVE BuildMembers(_, _, _, _, _)
RECURSIVE BuildElements(_, _, _, _)
RECURSIVE BuildParams(_, _, _, _)
RECURSIVE SortByOffset(_)
RECURSIVE ReadAllUnwrap(_, _)

\* (offset, value) goes after the pairs of a smaller or equal offset
InsertByOffset(sorted, p) ==
    SubSeq(sorted, 1, Cardinality({i \in 1..Len(sorted) : sorted[i].offset <= p.offset}))
    \o <<p>>
    \o SubSeq(sorted, Cardinality({i \in 1..Len(sorted) : sorted[i].offset <= p.offset}) + 1,
              Len(sorted))

\* sort_unstable_by on the offsets (an insertion sort for the short slices here)
SortByOffset(pairs) ==
    IF pairs = <<>> THEN <<>>
    ELSE InsertByOffset(SortByOffset(SubSeq(pairs, 1, Len(pairs) - 1)), pairs[Len(pairs)])

\* read_expression_value(..).unwrap() of the sorted values from i on: the llvm values
ReadAllUnwrap(pairs, i) ==
    IF i > Len(pairs) THEN Ok(<<>>, <<>>)
    ELSE AndThen(Unwrap(read_expression_value(pairs[i].value)),
                 LAMBDA v : AndThen(ReadAllUnwrap(pairs, i + 1),
                                    LAMBDA rest : Ok(<<v.v>> \o rest, <<>>)))

build_number_literal_expression(e) ==
    IF e.number = "Integer" THEN Ok(Right(IntegerType, e.v), <<>>)
    ELSE Ok(Right(FloatType, e.v), <<>>)

build_identifier_expression(e, sc) ==
    CASE e.name = "true" -> Ok(Right(BoolType, "true"), <<>>)
      [] e.name = "false" -> Ok(Right(BoolType, "false"), <<>>)
      [] OTHER -> get_variable(sc, e.name)

build_unary_operator_expression(e, sc, reg) ==
    AndThen(build_expression(e.expr, sc, reg),
            LAMBDA value : CASE e.op = "Plus" -> Ok(value, <<>>)
                             [] e.op = "Sub" -> build_neg(value)
                             [] OTHER -> Err("panic", <<>>))

\* the loop of lines 44-47 from member i on: the (offset, value) pairs
BuildMembers(members, fields, i, sc, reg) ==
    IF i > Len(members) THEN Ok(<<>>, <<>>)
    ELSE AndThen(build_expression(members[i][2], sc, reg),
                 LAMBDA value :
                     IF get_member_offset(fields, members[i][1]) < 0 THEN Err("panic", <<>>)
                     ELSE AndThen(BuildMembers(members, fields, i + 1, sc, reg),
                                  LAMBDA rest :
                                      Ok(<<[offset |-> get_member_offset(fields, members[i][1]),
                                            value |-> value]>> \o rest, <<>>)))

build_structure_initializer(e, sc, reg) ==
    AndThen(get_generic_type(TypeIdentifier(e.structure_name), reg),
            LAMBDA struct_type :
                IF struct_type.k # "Struct" THEN Err("TypeMismatched", <<>>)
                ELSE IF Len(get_field_types(reg, struct_type.name)) # Len(e.member_initial_values)
                     THEN Err("TypeMismatched", <<>>)
                ELSE AndThen(BuildMembers(e.member_initial_values,
                                          get_field_types(reg, struct_type.name), 1, sc, reg),
                             LAMBDA value_array :
                                 AndThen(ReadAllUnwrap(SortByOffset(value_array), 1),
                                         LAMBDA struct_llvm_value :
                                             Ok(Right(struct_type, struct_llvm_value), <<>>))))

\* the loop of lines 80-83 from element i on: the values read
BuildElements(elements, i, sc, reg) ==
    IF i > Len(elements) THEN Ok(<<>>, <<>>)
    ELSE AndThen(build_expression(elements[i], sc, reg),
                 LAMBDA expr :
                     AndThen(read_expression_value(expr),
                             LAMBDA v : AndThen(BuildElements(elements, i + 1, sc, reg),
                                                LAMBDA rest : Ok(<<v>> \o rest, <<>>))))

\* an array constant built without comparing the element types
build_array_initializer_unchecked(e, sc, reg) ==
    IF e.elements = <<>> THEN Err("NotAllowZeroLengthArray", <<>>)
    ELSE AndThen(BuildElements(e.elements, 1, sc, reg),
                 LAMBDA array_values :
                     Ok(Right(ArrayType(array_values[1].ty, Len(e.elements)),
                              [i \in 1..Len(array_values) |-> array_values[i].v]),
                        <<>>))

build_array_initializer(e, sc, reg) ==
    IF e.elements = <<>> THEN Err("NotAllowZeroLengthArray", <<>>)
    ELSE AndThen(BuildElements(e.elements, 1, sc, reg),
                 LAMBDA array_values :
                     IF \E i \in 2..Len(array_values) : array_values[i].ty # array_values[1].ty
                     THEN Err("TypeMismatched", <<>>)
                     ELSE Ok(Right(ArrayType(array_values[1].ty, Len(e.elements)),
                                   [i \in 1..Len(array_values) |-> array_values[i].v]),
                             <<>>))

\* the loop of lines 250-252 from parameter i on: the expression values
BuildParams(params, i, sc, reg) ==
    IF i > Len(params) THEN Ok(<<>>, <<>>)
    ELSE AndThen(build_expression(params[i], sc, reg),
                 LAMBDA expr : AndThen(BuildParams(params, i + 1, sc, reg),
                                       LAMBDA rest : Ok(<<expr>> \o rest, <<>>)))

build_call_expression(e, sc, reg) ==
    AndThen(get_function(sc, e.function_name),
            LAMBDA function : AndThen(BuildParams(e.params, 1, sc, reg),
                                      LAMBDA params : build_call(function, params)))

ArithmeticOperators == {"Plus", "Sub", "Mul", "Div", "Mod"}
CompareOperators ==
    {"Equal", "NotEqual", "GreaterThan", "LessThan", "GreaterOrEqualThan", "LessOrEqualThan"}
LogicOperators == {"And", "Or", "Xor"}

\* an Assign arm that drops the pointer build_assign answers and yields Unit
OperatorAssignUnit(left, right) ==
    AndThen(build_assign(left, right), LAMBDA p : Ok(Unit, <<>>))

\* the Operator::Assign arm once both operands are lowered
OperatorAssign(left, right) ==
    AndThen(build_assign(left, right), LAMBDA p : Ok(Left(p.ptr, p.ty), <<>>))

\* an operator arm applied to the two lowered operands
ApplyOperator(op, left, right) ==
    CASE op \in ArithmeticOperators -> build_arithmetic(op, left, right)
      [] op \in CompareOperators -> build_compare(op, left, right)
      [] op \in LogicOperators -> build_binary_logic(op, left, right)
      [] op = "Assign" -> OperatorAssign(left, right)
      [] OTHER -> Err("panic", <<>>)

build_binary_operator_expression(e, sc, reg) ==
    AndThen(build_expression(e.left, sc, reg),
            LAMBDA left :
                IF e.op = "Dot"
                THEN IF e.right.k = "Identifier" THEN build_dot(left, e.right.name, reg)
                     ELSE Err("NoSuitableBinaryOperator", <<>>)
                ELSE AndThen(build_expression(e.right, sc, reg),
                             LAMBDA right : ApplyOperator(e.op, left, right)))

build_expression(e, sc, reg) ==
    CASE e.k = "UnaryOperator" -> build_unary_operator_expression(e, sc, reg)
      [] e.k = "BinaryOperator" -> build_binary_operator_expression(e, sc, reg)
      [] e.k = "NumberLiteral" -> build_number_literal_expression(e)
      [] e.k = "CallExpression" -> build_call_expression(e, sc, reg)
      [] e.k = "Identifier" -> build_identifier_expression(e, sc)
      [] e.k = "ArrayInitializer" -> build_array_initializer(e, sc, reg)
      [] e.k = "StructureInitializer" -> build_structure_initializer(e, sc, reg)
      [] OTHER -> Err("panic", <<>>)

(***************************************************************************)
(* Inputs: the translation units and the statements the model draws.       *)
(***************************************************************************)
One == NumberLiteral("Integer", "1")
Two == NumberLiteral("Integer", "2")
TwoFloat == NumberLiteral("Float", "2.0")
True == Identifier("true")
AssignA == BinaryOperator("Assign", Identifier("a"), One)
ChainA == BinaryOperator("Assign", Identifier("a"), AssignA)
AssignExt == BinaryOperator("Assign", Identifier("a"), CallExpression("ext", <<>>))
CallExt == CallExpression("ext", <<>>)
CallG == CallExpression("g", <<>>)
CallH == CallExpression("h", <<>>)

PInit == StructureInitializer("P", <<<<"x", One>>, <<"y", Two>>>>)
PInitSwapped == StructureInitializer("P", <<<<"y", Two>>, <<"x", One>>>>)
PInitMissing == StructureInitializer("P", <<<<"x", One>>>>)
PInitExtra == StructureInitializer("P", <<<<"x", One>>, <<"y", Two>>, <<"z", One>>>>)
PInitDuplicate == StructureInitializer("P", <<<<"x", One>>, <<"x", Two>>>>)
PInitDuplicateSwapped == StructureInitializer("P", <<<<"x", Two>>, <<"x", One>>>>)
PInitUndeclared == StructureInitializer("P", <<<<"x", One>>, <<"z", Two>>>>)
ArrayEmpty == ArrayInitializer(<<>>)
ArrayMixed == ArrayInitializer(<<One, TwoFloat>>)
ArrayOfTwo == ArrayInitializer(<<One, Two>>)

StructP == Structure("P", <<<<"x", TypeIdentifier("i32")>>, <<"y", TypeIdentifier("i32")>>>>)
GlobalV == Variable("gv", NoDeclarator, One)
GlobalP == Variable("gp", TypeIdentifier("P"), PInit)
ExternExt == FunctionPrototype("ext", <<>>, NoDeclarator)
FunctionF ==
    FunctionDefinition(FunctionPrototype("f", <<TypeIdentifier("i32")>>, TypeIdentifier("i32")), <<"a">>)
FunctionG == FunctionDefinition(FunctionPrototype("g", <<>>, NoDeclarator), <<>>)
FunctionH == FunctionDefinition(FunctionPrototype("h", <<>>, NoDeclarator), <<>>)

Ast(globals, structures, externs, functions) ==
    [globals_variables |-> globals, globals_structures |-> structures,
     extern_functions |-> externs, function_definitions |-> functions]

AstSet ==
    {Ast(<<>>, <<>>, <<>>, <<>>),
     Ast(<<GlobalP>>, <<StructP>>, <<>>, <<>>),
     Ast(<<>>, <<>>, <<>>, <<FunctionG>>),
     Ast(<<GlobalV>>, <<StructP>>, <<ExternExt>>, <<FunctionF>>),
     Ast(<<>>, <<>>, <<ExternExt>>, <<FunctionG, FunctionH>>)}

ExpressionStatements ==
    {AssignA, ChainA, AssignExt, CallExt, PInit, PInitSwapped, PInitMissing, PInitExtra,
     PInitDuplicate, PInitDuplicateSwapped, PInitUndeclared, ArrayEmpty, ArrayMixed, ArrayOfTwo}
CallStatements == {CallExt, CallG, CallH}
ReturnValues == {One, TwoFloat, CallExt}
Conditions == {True, One}
LocalVariables == {Variable("v", NoDeclarator, One), Variable("v", TypeIdentifier("i32"), One)}

Expressions(e) == [k |-> "Expressions", expr |-> e]
VariableDefinition(v) == [k |-> "VariableDefinition", variable |-> v]
Void == [k |-> "Void"]
ForLoop(init, condition, iterate) == [init |-> init, condition |-> condition, iterate |-> iterate]
ForLoops ==
    {ForLoop(VariableDefinition(Variable("v", NoDeclarator, One)), Expressions(True), Expressions(AssignA)),
     ForLoop(Expressions(AssignA), Expressions(True), Expressions(AssignA)),
     ForLoop(Void, Expressions(True), Void),
     ForLoop(Void, Expressions(One), Void),
     ForLoop(VariableDefinition(Variable("v", NoDeclarator, One)), Void, Expressions(AssignA))}
NoCondition == [k |-> "None"]

(***************************************************************************)
(* The module under construction and the builder cursor.                   *)
(***************************************************************************)
EmitAt(blks, b, insts) == [blks EXCEPT ![b].insts = @ \o insts]

\* position_at(block, first instruction): insert before everything in the block
EmitBefore(blks, b, insts) == [blks EXCEPT ![b].insts = insts \o @]

PositionOf(layout, b) == CHOOSE i \in 1..Len(layout) : layout[i] = b

\* append_basic_block: a new block at the end of function f; [module, blocks, block]
append_basic_block(mod, blks, f) ==
    [module |-> [mod EXCEPT ![f].blocks = Append(@, Len(blks) + 1)],
     blocks |-> Append(blks, [fn |-> f, insts |-> <<>>]),
     block |-> Len(blks) + 1]

\* a new block put at the end of b's function
insert_basic_block_at_end(mod, blks, b) == append_basic_block(mod, blks, blks[b].fn)

\* insert_basic_block_after: a new block right after b in b's function
insert_basic_block_after(mod, blks, b) ==
    LET f == blks[b].fn
        layout == mod[f].blocks
        i == PositionOf(layout, b) IN
    [module |-> [mod EXCEPT ![f].blocks =
                    SubSeq(layout, 1, i) \o <<Len(blks) + 1>> \o SubSeq(layout, i + 1, Len(layout))],
     blocks |-> Append(blks, [fn |-> f, insts |-> <<>>]),
     block |-> Len(blks) + 1]

\* the three blocks every control statement creates (lines 309-311, 338-340, 363-365)
InsertThreeAfter(mod, blks, b) ==
    LET first == insert_basic_block_after(mod, blks, b)
        second == insert_basic_block_after(first.module, first.blocks, first.block)
        third == insert_basic_block_after(second.module, second.blocks, second.block) IN
    [module |-> third.module, blocks |-> third.blocks,
     b1 |-> first.block, b2 |-> second.block, b3 |-> third.block]

NoVariable == [some |-> FALSE]
SomeVariable(ptr, ty) == [some |-> TRUE, ptr |-> ptr, ty |-> ty]

(***************************************************************************)
(* The generator's state as the lowering functions thread it: the module,  *)
(* the blocks, the symbol tables, the cursor and the function context.     *)
(* A lowering function answers [err, st, value]: st is the state where it  *)
(* returned, by an error or not.                                           *)
(***************************************************************************)
Done(st, value) == [err |-> "none", st |-> st, value |-> value]
Failed(e, st) == [err |-> e, st |-> st, value |-> Unit]

\* instructions appended where the cursor stands
Emit(st, insts) ==
    IF insts = <<>> THEN st ELSE [st EXCEPT !.blocks = EmitAt(@, st.cursor, insts)]
position_at_end(st, b) == [st EXCEPT !.cursor = b]
WithScopes(st, sc) == [st EXCEPT !.scopes = sc]

\* `let x = r?; K(x, st)` for a Result r computed at st: what r emitted is in the
\* block either way
Lowered(r, st, K(_, _)) ==
    IF r.err # "none" THEN Failed(r.err, Emit(st, r.insts)) ELSE K(r.value, Emit(st, r.insts))

\* `let x = r?; K(x)` for a lowering function's answer r
Then(r, K(_, _)) == IF r.err # "none" THEN r ELSE K(r.value, r.st)

\* three blocks inserted after the cursor's block; K gets their ids
WithThreeBlocks(st, K(_, _)) ==
    K([b1 |-> InsertThreeAfter(st.module, st.blocks, st.cursor).b1,
       b2 |-> InsertThreeAfter(st.module, st.blocks, st.cursor).b2,
       b3 |-> InsertThreeAfter(st.module, st.blocks, st.cursor).b3],
      [st EXCEPT !.module = InsertThreeAfter(st.module, st.blocks, st.cursor).module,
                 !.blocks = InsertThreeAfter(st.module, st.blocks, st.cursor).blocks])

\* what the store of build_return answers ("none" when there is no return slot)
ReturnStore(c, value) ==
    IF c.return_variable.some
    THEN build_store(c.return_variable.ptr, c.return_variable.ty, value)
    ELSE Ok(Unit, <<>>)

\* the Result of the store is dropped; the branch is emitted whatever it was
build_return(st, value) ==
    Done(Emit(st, ReturnStore(st.ctx, value).insts \o <<Br(st.ctx.return_block)>>), Unit)

\* a return block that returns nothing whatever the function returns
build_return_block_of_nothing(return_variable) == <<Ret(FALSE)>>

\* the instructions build_return_block puts into the return block
build_return_block(return_variable) ==
    IF return_variable.some THEN <<Load(return_variable.ptr), Ret(TRUE)>> ELSE <<Ret(FALSE)>>

\* LEGenerator::create_local_variable: slot and store at the cursor, symbol in the
\* top frame; the value is the new symbol tables
generator_create_local_variable(fname, name, initial_value, sc) ==
    AndThen(read_expression_value(initial_value),
            LAMBDA v : AndThen(insert_local(sc, VariableSymbol(name, v.ty, Pointer(fname, name))),
                               LAMBDA inserted :
                                   Ok(inserted, <<Alloca(Pointer(fname, name), v.ty),
                                                  Store(Pointer(fname, name), v.v)>>)))

\* LEGenerator::create_local_variable_with_exact_type
create_local_variable_with_exact_type(fname, name, initial_value, decl, sc, reg) ==
    AndThen(get_generic_type(decl, reg),
            LAMBDA ty : AndThen(read_expression_value(initial_value),
                                LAMBDA v : IF v.ty # ty THEN Err("TypeMismatched", <<>>)
                                           ELSE generator_create_local_variable(fname, name, v, sc)))

CurrentName(st) == st.module[st.ctx.current_function].name

\* everything is emitted where the cursor stands
build_local_variable_definition(st, v) ==
    Lowered(AndThen(build_expression(v.value, st.scopes, st.types),
                    LAMBDA initial_value :
                        IF v.type_declarator # NoDeclarator
                        THEN create_local_variable_with_exact_type(
                                 CurrentName(st), v.name, initial_value, v.type_declarator,
                                 st.scopes, st.types)
                        ELSE generator_create_local_variable(
                                 CurrentName(st), v.name, initial_value, st.scopes)),
            st, LAMBDA sc, emitted : Done(WithScopes(emitted, sc), Unit))

\* the read of a lowered condition accepted whatever its type is
ReadConditionOfAnyType(cond) == read_expression_value(cond)

\* lines 366-371, 344-350 and 318-323: the lowered condition is read, and a value
\* that is not Bool is TypeMismatched
ReadCondition(cond) ==
    AndThen(read_expression_value(cond),
            LAMBDA v : IF v.ty # BoolType THEN Err("TypeMismatched", <<>>) ELSE Ok(v, <<>>))

\* a condition lowered and read at the cursor
BuildCondition(st, e, K(_, _)) ==
    Lowered(AndThen(build_expression(e, st.scopes, st.types), ReadCondition), st, K)

(***************************************************************************)
(* compile: the passes in the order of lines 521-523 and 487-494.          *)
(***************************************************************************)
PassOrder == <<"globals", "structures", "externs", "functions">>

PassItems(a, p) ==
    CASE p = "globals" -> a.globals_variables
      [] p = "structures" -> a.globals_structures
      [] p = "externs" -> a.extern_functions
      [] OTHER -> a.function_definitions

(***************************************************************************)
(* The lexer and the parser of a while loop (ast/parser/while_loop.rs).     *)
(* The lexer answers each call of the parser with what the source text     *)
(* holds at that place: a success, or one of the errors.                   *)
(***************************************************************************)
ParseErrors == {"UnexpectedToken", "UnexpectedEndOfInput"}
\* what the lexer answers a call with: a value, or an error
Answered(value) == [err |-> "none", value |-> value]
Missing(e, value) == [err |-> e, value |-> value]
Tokens == {Answered(Unit)} \cup {Missing(e, Unit) : e \in ParseErrors}
ParsedExpressions == {True, One, AssignA}
CodeBlocks == {<<>>, <<Expressions(AssignA)>>, <<Void, Expressions(CallExt)>>}

\* the lexers parse_while_loop is called with
LexerSet ==
    [keyword : Tokens, left_par : Tokens,
     condition : {Answered(e) : e \in ParsedExpressions}
                     \cup {Missing(e, NoCondition) : e \in ParseErrors},
     right_par : Tokens,
     code_block : {Answered(b) : b \in CodeBlocks} \cup {Missing(e, <<>>) : e \in ParseErrors},
     consumed : {<<>>}]

\* the lexer of a source text that has been read to its end
AtEndOfInput ==
    [keyword |-> Missing("UnexpectedEndOfInput", Unit),
     left_par |-> Missing("UnexpectedEndOfInput", Unit),
     condition |-> Missing("UnexpectedEndOfInput", NoCondition),
     right_par |-> Missing("UnexpectedEndOfInput", Unit),
     code_block |-> Missing("UnexpectedEndOfInput", <<>>), consumed |-> <<>>]

NotParsed == [err |-> "not parsed"]
NoWhileLoop == [k |-> "None"]
WhileLoop(condition, code_block) ==
    [k |-> "WhileLoop", condition |-> condition, code_block |-> code_block]

\* a call of the lexer or of a sub-parser: [err, value, lexer]
Took(lx, what, value) ==
    [err |-> "none", value |-> value, lexer |-> [lx EXCEPT !.consumed = Append(@, what)]]
Refused(lx, e) == [err |-> e, value |-> NoWhileLoop, lexer |-> lx]

consume_keyword(lx) ==
    IF lx.keyword.err # "none" THEN Refused(lx, lx.keyword.err) ELSE Took(lx, "keyword", Unit)
consume_left_par(lx) ==
    IF lx.left_par.err # "none" THEN Refused(lx, lx.left_par.err) ELSE Took(lx, "left_par", Unit)
consume_right_par(lx) ==
    IF lx.right_par.err # "none" THEN Refused(lx, lx.right_par.err) ELSE Took(lx, "right_par", Unit)
parse_expression(lx) ==
    IF lx.condition.err # "none" THEN Refused(lx, lx.condition.err)
    ELSE Took(lx, "condition", lx.condition.value)
parse_code_block(lx) ==
    IF lx.code_block.err # "none" THEN Refused(lx, lx.code_block.err)
    ELSE Took(lx, "code_block", lx.code_block.value)

\* lines 10-14: Some(expr) if parse_expression succeeds, None otherwise
OptionalCondition(r) == IF r.err = "none" THEN r.value ELSE NoCondition

\* a parser that returns the error of the condition as it does the others
parse_while_loop_strict(lx) ==
    LET k == consume_keyword(lx) IN
    IF k.err # "none" THEN k ELSE
    LET l == consume_left_par(k.lexer) IN
    IF l.err # "none" THEN l ELSE
    LET c == parse_expression(l.lexer) IN
    IF c.err # "none" THEN c ELSE
    LET r == consume_right_par(c.lexer) IN
    IF r.err # "none" THEN r ELSE
    LET b == parse_code_block(r.lexer) IN
    IF b.err # "none" THEN b ELSE
    [err |-> "none", value |-> WhileLoop(OptionalCondition(c), b.value), lexer |-> b.lexer]

\* parse_while_loop, while_loop.rs lines 7-21
parse_while_loop(lx) ==
    LET k == consume_keyword(lx) IN
    IF k.err # "none" THEN k ELSE
    LET l == consume_left_par(k.lexer) IN
    IF l.err # "none" THEN l ELSE
    LET c == parse_expression(l.lexer) IN
    LET r == consume_right_par(c.lexer) IN
    IF r.err # "none" THEN r ELSE
    LET b == parse_code_block(r.lexer) IN
    IF b.err # "none" THEN b ELSE
    [err |-> "none", value |-> WhileLoop(OptionalCondition(c), b.value), lexer |-> b.lexer]

RECURSIVE PassFrom(_, _)
\* the first pass from the k-th on that has an item to lower
PassFrom(a, k) ==
    IF k > Len(PassOrder) THEN "done"
    ELSE IF PassItems(a, PassOrder[k]) # <<>> THEN PassOrder[k]
    ELSE PassFrom(a, k + 1)

\* where compile stands once item i of pass p is lowered
Advance(a, p, i) ==
    IF i < Len(PassItems(a, p)) THEN [pc |-> p, idx |-> i + 1]
    ELSE [pc |-> PassFrom(a, (CHOOSE k \in 1..Len(PassOrder) : PassOrder[k] = p) + 1), idx |-> 1]

\* the generator's state, as the lowering functions take it
St ==
    [module |-> module, blocks |-> blocks, scopes |-> scopes, cursor |-> cursor,
     ctx |-> ctx, types |-> types]

\* the generator's state becomes the one a lowering function returned in
Commit(st) ==
    /\ module' = st.module
    /\ blocks' = st.blocks
    /\ scopes' = st.scopes
    /\ cursor' = st.cursor
    /\ ctx' = st.ctx
    /\ types' = st.types

Init ==
    /\ ast \in AstSet
    /\ pc = PassFrom(ast, 1)
    /\ idx = 1
    /\ result = IF PassFrom(ast, 1) = "done" THEN "Ok" ELSE "running"
    /\ types = <<>>
    /\ scopes = <<{}>>
    /\ module = <<>>
    /\ blocks = <<>>
    /\ cursor = 0
    /\ ctx = [current_function |-> 0, return_variable |-> NoVariable, return_block |-> 0]
    /\ stack = <<>>
    /\ flag = "none"
    /\ stmt = [k |-> "None"]
    /\ nstmts = 0
    /\ lexer = AtEndOfInput
    /\ parsed = NotParsed

\* the first error ends compile: every caller returns it
Fail(e) ==
    /\ result' = e
    /\ pc' = "done"
    /\ idx' = idx
    /\ stack' = <<>>
    /\ flag' = "none"

\* item idx of the running pass is lowered
NextItem ==
    /\ pc' = Advance(ast, pc, idx).pc
    /\ idx' = Advance(ast, pc, idx).idx
    /\ result' = IF Advance(ast, pc, idx).pc = "done" THEN "Ok" ELSE "running"
    /\ stack' = <<>>
    /\ flag' = "none"

\* an iteration of a pass ends: by its error, or with the next item
Finished(r) ==
    /\ Commit(r.st)
    /\ IF r.err = "none" THEN NextItem ELSE Fail(r.err)

\* LEGenerator::create_global_variable; the value is the new symbol tables
create_global_variable(name, value, sc) ==
    AndThen(read_expression_value(value),
            LAMBDA v : insert_global(sc, VariableSymbol(name, v.ty, Pointer("", name))))

\* LEGenerator::create_global_variable_with_exact_type
create_global_variable_with_exact_type(name, value, ty, sc) ==
    AndThen(read_expression_value(value),
            LAMBDA v : IF v.ty # ty THEN Err("TypeMismatched", <<>>)
                       ELSE insert_global(sc, VariableSymbol(name, ty, Pointer("", name))))

\* the body of the loop of generate_all_global_variables
generate_global_variable(st, variable) ==
    Lowered(AndThen(build_expression(variable.value, st.scopes, st.types),
                    LAMBDA expr_value :
                        IF variable.type_declarator # NoDeclarator
                        THEN AndThen(get_generic_type(variable.type_declarator, st.types),
                                     LAMBDA ty : create_global_variable_with_exact_type(
                                                     variable.name, expr_value, ty, st.scopes))
                        ELSE create_global_variable(variable.name, expr_value, st.scopes)),
            st, LAMBDA sc, emitted : Done(WithScopes(emitted, sc), Unit))

\* one iteration of generate_all_global_variables
GenerateGlobalVariable ==
    /\ pc = "globals" /\ result = "running"
    /\ Finished(generate_global_variable(St, ast.globals_variables[idx]))
    /\ UNCHANGED <<ast, lexer, parsed, stmt, nstmts>>

RECURSIVE MemberTypes(_, _, _)
\* the loop of lines 538-541 from member i on: the (name, type) members
MemberTypes(members, i, reg) ==
    IF i > Len(members) THEN Ok(<<>>, <<>>)
    ELSE AndThen(get_generic_type(members[i][2], reg),
                 LAMBDA t : AndThen(MemberTypes(members, i + 1, reg),
                                    LAMBDA rest :
                                        Ok(<<[name |-> members[i][1], ty |-> t]>> \o rest, <<>>)))

\* LEGenerator::insert_global_type; the value is the new registry
insert_global_type(reg, name, members) ==
    IF IsDeclared(reg, name) \/ IsPrimitive(name) THEN Err("Redefinition", <<>>)
    ELSE Ok(Append(reg, [name |-> name, members |-> members]), <<>>)

\* the body of the loop of generate_all_global_structures
generate_global_structure(st, structure) ==
    Lowered(AndThen(MemberTypes(structure.members, 1, st.types),
                    LAMBDA members : insert_global_type(st.types, structure.name, members)),
            st, LAMBDA reg, emitted : Done([emitted EXCEPT !.types = reg], Unit))

\* one iteration of generate_all_global_structures
GenerateGlobalStructure ==
    /\ pc = "structures" /\ result = "running"
    /\ Finished(generate_global_structure(St, ast.globals_structures[idx]))
    /\ UNCHANGED <<ast, lexer, parsed, stmt, nstmts>>

RECURSIVE ParamTypes(_, _, _)
\* the loop of lines 395-399 from parameter i on: the parameter types
ParamTypes(decls, i, reg) ==
    IF i > Len(decls) THEN Ok(<<>>, <<>>)
    ELSE AndThen(get_generic_type(decls[i], reg),
                 LAMBDA t : AndThen(ParamTypes(decls, i + 1, reg),
                                    LAMBDA rest : Ok(<<t>> \o rest, <<>>)))

\* lines 401-419: the return type, NoType for a function without one
ReturnType(prototype, reg) ==
    IF prototype.return_type = NoDeclarator THEN Ok(NoType, <<>>)
    ELSE get_generic_type(prototype.return_type, reg)

\* a function added to the module whose symbol is not inserted
AddFunctionUndeclared(st, name, param_types, return_type) ==
    Done([st EXCEPT !.module = Append(@, [name |-> name, ret |-> return_type, blocks |-> <<>>])],
         [function |-> Len(st.module) + 1, ret |-> return_type, params |-> param_types])

\* lines 420-424: the function is added to the module, then its symbol is inserted;
\* the value is [function (index in the module), ret, params]
AddFunction(st, name, param_types, return_type) ==
    Lowered(insert_global(st.scopes, FunctionSymbol(name, param_types, return_type)),
            [st EXCEPT !.module = Append(@, [name |-> name, ret |-> return_type, blocks |-> <<>>])],
            LAMBDA sc, added :
                Done(WithScopes(added, sc),
                     [function |-> Len(added.module), ret |-> return_type, params |-> param_types]))

build_function_prototype(st, prototype) ==
    Lowered(AndThen(ParamTypes(prototype.param_types, 1, st.types),
                    LAMBDA param_types :
                        AndThen(ReturnType(prototype, st.types),
                                LAMBDA return_type :
                                    Ok([params |-> param_types, ret |-> return_type], <<>>))),
            st, LAMBDA ty, s : AddFunction(s, prototype.name, ty.params, ty.ret))

\* one iteration of the first loop of generate_all_functions
BuildExternPrototype ==
    /\ pc = "externs" /\ result = "running"
    /\ Finished(build_function_prototype(St, ast.extern_functions[idx]))
    /\ UNCHANGED <<ast, lexer, parsed, stmt, nstmts>>

(***************************************************************************)
(* Function lowering.                                                      *)
(***************************************************************************)
EntryBlock(st) == st.module[st.ctx.current_function].blocks[1]

\* lines 481-483 of CodeGenerator::create_local_variable, r being what the
\* LEGenerator call answered with the builder in the entry block (before its first
\* instruction when there is one); the builder goes back to the end of the block it
\* was in unless the call failed
LocalCreated(st, r) ==
    IF r.err # "none" THEN Failed(r.err, position_at_end(st, EntryBlock(st)))
    ELSE Done([st EXCEPT !.blocks = IF @[EntryBlock(st)].insts # <<>>
                                    THEN EmitBefore(@, EntryBlock(st), r.insts)
                                    ELSE EmitAt(@, EntryBlock(st), r.insts),
                         !.scopes = r.value],
              Unit)

\* CodeGenerator::create_local_variable
create_local_variable(st, name, initial_value) ==
    LocalCreated(st, generator_create_local_variable(CurrentName(st), name, initial_value, st.scopes))

RECURSIVE BindParams(_, _, _, _)
\* the loop of lines 458-461 from parameter i on
BindParams(st, names, tys, i) ==
    IF i > Len(names) \/ i > Len(tys) THEN Done(st, Unit)
    ELSE Then(create_local_variable(st, names[i], Right(tys[i], "%arg")),
              LAMBDA u, bound : BindParams(bound, names, tys, i + 1))

\* the return slot of a function that returns a value
ReturnVariable(fname, ret) ==
    IF ret # NoType THEN SomeVariable(Pointer(fname, "return"), ret) ELSE NoVariable

\* lines 443-455: the slot in the entry block, the context, the return block, the
\* builder at the end of the entry block, the scope of the function pushed
FunctionSetUp(st, f, entry, return_block, return_variable) ==
    [st EXCEPT !.blocks = EmitAt(EmitAt(@, entry,
                                        IF return_variable.some
                                        THEN <<Alloca(return_variable.ptr, return_variable.ty)>>
                                        ELSE <<>>),
                                 return_block, build_return_block(return_variable)),
               !.ctx = [current_function |-> f, return_variable |-> return_variable,
                        return_block |-> return_block],
               !.cursor = entry,
               !.scopes = push_block_table(@)]

\* lines 441-442: the entry block and the return block appended to function f
WithTwoBlocks(st, f, K(_, _, _)) ==
    LET entry == append_basic_block(st.module, st.blocks, f)
        return_block == append_basic_block(entry.module, entry.blocks, f) IN
    K(entry.block, return_block.block,
      [st EXCEPT !.module = return_block.module, !.blocks = return_block.blocks])

\* build_function up to the call of build_code_block (lines 440-462)
build_function_enter(st, function_node) ==
    Then(build_function_prototype(st, function_node.prototype),
         LAMBDA function_value, declared :
             WithTwoBlocks(declared, function_value.function,
                 LAMBDA entry, return_block, s :
                     BindParams(FunctionSetUp(s, function_value.function, entry, return_block,
                                              ReturnVariable(function_node.prototype.name,
                                                             function_value.ret)),
                                function_node.param_names, function_value.params, 1)))

FunctionFrame(return_block) == [op |-> "function", n |-> 0, return_block |-> return_block]

\* build_code_block is called for the body, or the error is returned
FunctionEntered(r) ==
    /\ Commit(r.st)
    /\ IF r.err # "none" THEN Fail(r.err)
       ELSE /\ stack' = <<FunctionFrame(r.st.ctx.return_block)>>
            /\ flag' = "none"
            /\ UNCHANGED <<pc, idx, result>>

BuildFunction ==
    /\ pc = "functions" /\ result = "running" /\ stack = <<>>
    /\ FunctionEntered(build_function_enter(St, ast.function_definitions[idx]))
    /\ UNCHANGED <<ast, lexer, parsed, stmt, nstmts>>

Top == stack[Len(stack)]

\* the end of build_function branching to the return block whatever the body did
build_function_leave_always(st, returned, return_block) ==
    WithScopes(Emit(st, <<Br(return_block)>>), pop_block_table(st.scopes))

\* build_function once build_code_block has returned, lines 464-467
build_function_leave(st, returned, return_block) ==
    WithScopes(IF returned = "false" THEN Emit(st, <<Br(return_block)>>) ELSE st,
               pop_block_table(st.scopes))

\* build_function once build_code_block has returned, and the loop of
\* generate_all_functions moving on
FunctionReturns ==
    /\ result = "running" /\ flag # "none" /\ stack # <<>>
    /\ Top.op = "function"
    /\ Commit(build_function_leave(St, flag, Top.return_block))
    /\ NextItem
    /\ UNCHANGED <<ast, lexer, parsed, stmt, nstmts>>

(***************************************************************************)
(* build_code_block: one action per arm of the match on the next           *)
(* statement, and one for the end of the statement list.                   *)
(***************************************************************************)
\* build_code_block stands before the next statement of the body being lowered
Dispatching == pc = "functions" /\ result = "running" /\ stack # <<>> /\ flag = "none"

\* where the dispatched statement stands and what the builder looked like
Dispatched(k) ==
    [k |-> k, in |-> Top.op, pos |-> Top.n + 1, at |-> cursor,
     len |-> Len(blocks[cursor].insts), depth |-> Len(scopes), nblocks |-> Len(blocks)]

\* the loop goes on to the next statement
Continue ==
    /\ stack' = [stack EXCEPT ![Len(stack)].n = @ + 1]
    /\ flag' = "none"
    /\ UNCHANGED <<pc, idx, result>>

\* a control statement starts lowering a body: its frame waits for the code block
Enter(frame) ==
    /\ stack' = Append([stack EXCEPT ![Len(stack)].n = @ + 1], frame)
    /\ flag' = "none"
    /\ UNCHANGED <<pc, idx, result>>

\* the caller on top of the stack resumes: its frame is gone
Leave ==
    /\ stack' = SubSeq(stack, 1, Len(stack) - 1)
    /\ flag' = "none"
    /\ UNCHANGED <<pc, idx, result>>

\* a statement that is not a return is lowered: the loop goes on, or `?` returns
Stepped(r, observed) ==
    /\ Commit(r.st)
    /\ stmt' = observed @@ [err |-> r.err]
    /\ IF r.err = "none" THEN Continue ELSE Fail(r.err)
    /\ nstmts' = nstmts + 1
    /\ UNCHANGED <<ast, lexer, parsed>>

ExpressionsArm(e, r) == Stepped(r, Dispatched("Expressions") @@ [expr |-> e, value |-> r.value])

StatementExpressions(e) ==
    /\ Dispatching /\ nstmts < MaxStmts
    /\ ExpressionsArm(e, Lowered(build_expression(e, scopes, types), St,
                                 LAMBDA value, s : Done(s, value)))

\* lines 273-275; the value is what the dropped Result of the store was
ReturnLowered(st, e) ==
    Lowered(build_expression(e, st.scopes, st.types), st,
            LAMBDA value, s : Done(build_return(s, value).st, ReturnStore(s.ctx, value).err))

\* a return statement after which the loop goes on to the next statement
ReturnArmContinues(e, r) ==
    /\ Commit(r.st)
    /\ stmt' = Dispatched("Return") @@
                 [expr |-> e, err |-> r.err, store |-> IF r.err = "none" THEN r.value ELSE "none"]
    /\ IF r.err # "none" THEN Fail(r.err) ELSE Continue
    /\ nstmts' = nstmts + 1
    /\ UNCHANGED <<ast, lexer, parsed>>

ReturnArm(e, r) ==
    /\ Commit(r.st)
    /\ stmt' = Dispatched("Return") @@
                 [expr |-> e, err |-> r.err, store |-> IF r.err = "none" THEN r.value ELSE "none"]
    /\ IF r.err # "none" THEN Fail(r.err)
       ELSE /\ stack' = [stack EXCEPT ![Len(stack)].n = @ + 1]
            /\ flag' = "true"
            /\ UNCHANGED <<pc, idx, result>>
    /\ nstmts' = nstmts + 1
    /\ UNCHANGED <<ast, lexer, parsed>>

StatementReturn(e) ==
    /\ Dispatching /\ nstmts < MaxStmts
    /\ ReturnArm(e, ReturnLowered(St, e))

StatementVariableDefinition(v) ==
    /\ Dispatching /\ nstmts < MaxStmts
    /\ Stepped(build_local_variable_definition(St, v),
               Dispatched("VariableDefinition") @@ [variable |-> v])

StatementVoid ==
    /\ Dispatching /\ nstmts < MaxStmts
    /\ Stepped(Done(St, Unit), Dispatched("Void"))

\* the statement list is exhausted: Ok(false)
EndOfBlock ==
    /\ Dispatching
    /\ flag' = "false"
    /\ UNCHANGED <<ast, lexer, parsed, pc, idx, result, types, scopes, module, blocks, cursor, ctx, stack,
                   stmt, nstmts>>

(***************************************************************************)
(* Control statements: the part before the body is lowered, and the part   *)
(* that runs once build_code_block has returned.                           *)
(***************************************************************************)
\* a further control statement may be entered
MayNest == Len(stack) <= MaxDepth

\* a control statement has run up to its body (r.value: its three blocks), has
\* returned an error, or has done nothing (r.value: Unit)
Entered(r, observed, frame) ==
    /\ Commit(r.st)
    /\ stmt' = observed @@ [err |-> r.err, three |-> r.value, ended |-> FALSE]
    /\ IF r.err # "none" THEN Fail(r.err)
       ELSE IF r.value = Unit THEN Continue
       ELSE Enter(frame @@ [n |-> 0, three |-> r.value, reached |-> observed, arms |-> <<>>])
    /\ nstmts' = nstmts + 1
    /\ UNCHANGED <<ast, lexer, parsed>>

\* how the body that build_code_block has just returned from ended
Arm ==
    [returned |-> flag, end |-> cursor, len |-> Len(blocks[cursor].insts),
     nblocks |-> Len(blocks)]

\* a control statement has run from the end of a body to its own end
Resumed(r) ==
    /\ Commit(r.st)
    /\ stmt' = [err |-> r.err, three |-> Top.three, ended |-> TRUE,
                arms |-> Append(Top.arms, Arm)] @@ Top.reached
    /\ IF r.err # "none" THEN Fail(r.err) ELSE Leave
    /\ UNCHANGED <<ast, lexer, parsed, nstmts>>

\* build_code_block has returned to the caller on top of the stack
Returned(op) == result = "running" /\ flag # "none" /\ stack # <<>> /\ Top.op = op

\* build_if_statement, lines 363-373; then_block b1, else_block b2, merge_block b3
build_if_statement_enter(st, cond) ==
    WithThreeBlocks(st,
        LAMBDA three, s :
            BuildCondition(s, cond,
                LAMBDA v, lowered :
                    Done(WithScopes(position_at_end(Emit(lowered, <<CondBr(three.b1, three.b2)>>),
                                                    three.b1),
                                    push_block_table(lowered.scopes)),
                         three)))

StatementIf(cond, has_else) ==
    /\ Dispatching /\ nstmts < MaxStmts /\ MayNest
    /\ Entered(build_if_statement_enter(St, cond),
               Dispatched("If") @@ [cond |-> cond, has_else |-> has_else],
               [op |-> "if_then", has_else |-> has_else])

\* the branch to the merge block emitted whatever the body did
BranchToMergeAlways(st, returned, merge_block) == Emit(st, <<Br(merge_block)>>)

\* lines 375-377 and 381-383: the branch to the merge block after a body that
\* did not return
BranchToMerge(st, returned, merge_block) ==
    IF returned = "false" THEN Emit(st, <<Br(merge_block)>>) ELSE st

\* lines 375-379: the then body has been lowered, the else body is next
IfThenReturns ==
    /\ Returned("if_then") /\ Top.has_else
    /\ Commit(position_at_end(BranchToMerge(St, flag, Top.three.b3), Top.three.b2))
    /\ stack' = [stack EXCEPT ![Len(stack)] = [op |-> "if_else", n |-> 0, three |-> Top.three,
                                               reached |-> Top.reached,
                                               arms |-> Append(Top.arms, Arm)]]
    /\ flag' = "none"
    /\ UNCHANGED <<ast, lexer, parsed, pc, idx, result, stmt, nstmts>>

\* lines 375-389 without an else body
build_if_statement_leave(st, returned, three) ==
    Done(WithScopes(position_at_end(
                        Emit(position_at_end(BranchToMerge(st, returned, three.b3), three.b2),
                             <<Br(three.b3)>>),
                        three.b3),
                    pop_block_table(st.scopes)),
         Unit)

IfReturns ==
    /\ Returned("if_then") /\ ~Top.has_else
    /\ Resumed(build_if_statement_leave(St, flag, Top.three))

\* the end of an if leaving the builder where the else body ended
build_if_statement_leave_else_in_place(st, returned, three) ==
    Done(WithScopes(BranchToMerge(st, returned, three.b3), pop_block_table(st.scopes)), Unit)

\* lines 380-389 after the else body
build_if_statement_leave_else(st, returned, three) ==
    Done(WithScopes(position_at_end(BranchToMerge(st, returned, three.b3), three.b3),
                    pop_block_table(st.scopes)),
         Unit)

IfElseReturns ==
    /\ Returned("if_else")
    /\ Resumed(build_if_statement_leave_else(St, flag, Top.three))

\* lines 344-354 with the builder in the condition block; body_block b2, after_block b3
WhileCondition(st, cond, three) ==
    IF cond = NoCondition
    THEN Done(position_at_end(Emit(st, <<Br(three.b2)>>), three.b2), three)
    ELSE BuildCondition(st, cond,
             LAMBDA v, lowered :
                 Done(position_at_end(Emit(lowered, <<CondBr(three.b2, three.b3)>>), three.b2),
                      three))

\* build_while_loop, lines 338-354; cond_block b1
build_while_loop_enter(st, cond) ==
    WithThreeBlocks(st,
        LAMBDA three, s :
            WhileCondition(WithScopes(position_at_end(Emit(s, <<Br(three.b1)>>), three.b1),
                                      push_block_table(s.scopes)),
                           cond, three))

StatementWhileLoop(cond) ==
    /\ Dispatching /\ nstmts < MaxStmts /\ MayNest
    /\ Entered(build_while_loop_enter(St, cond),
               Dispatched("WhileLoop") @@ [cond |-> cond],
               [op |-> "while"])

\* the end of a while loop leaving the body for the after block
build_while_loop_leave_to_after(st, three) ==
    Done(WithScopes(position_at_end(Emit(st, <<Br(three.b3)>>), three.b3),
                    pop_block_table(st.scopes)),
         Unit)

\* build_while_loop, lines 356-359: what build_code_block returned is not looked at
build_while_loop_leave(st, three) ==
    Done(WithScopes(position_at_end(Emit(st, <<Br(three.b1)>>), three.b3),
                    pop_block_table(st.scopes)),
         Unit)

WhileBodyReturns ==
    /\ Returned("while")
    /\ Resumed(build_while_loop_leave(St, Top.three))

\* lines 313-315: only a variable definition is lowered
ForInit(st, init) ==
    IF init.k = "VariableDefinition" THEN build_local_variable_definition(st, init.variable)
    ELSE Done(st, Unit)

\* a for loop that lowers its init statement in a new scope whatever its condition is
build_for_loop_enter_init_first(st, for_loop) ==
    IF for_loop.condition.k # "Expressions"
    THEN Then(ForInit(WithScopes(st, push_block_table(st.scopes)), for_loop.init),
              LAMBDA u, defined : Done(defined, Unit))
    ELSE WithThreeBlocks(st,
             LAMBDA three, s :
                 Then(ForInit(WithScopes(s, push_block_table(s.scopes)), for_loop.init),
                      LAMBDA u, defined :
                          BuildCondition(
                              position_at_end(Emit(defined, <<Br(three.b1)>>), three.b1),
                              for_loop.condition.expr,
                              LAMBDA v, lowered :
                                  Done(position_at_end(
                                           Emit(lowered, <<CondBr(three.b2, three.b3)>>),
                                           three.b2),
                                       three))))

\* build_for_loop, lines 306-324; cond_block b1, body_block b2, after_block b3
build_for_loop_enter(st, for_loop) ==
    IF for_loop.condition.k # "Expressions" THEN Done(st, Unit)
    ELSE WithThreeBlocks(st,
             LAMBDA three, s :
                 Then(ForInit(WithScopes(s, push_block_table(s.scopes)), for_loop.init),
                      LAMBDA u, defined :
                          BuildCondition(
                              position_at_end(Emit(defined, <<Br(three.b1)>>), three.b1),
                              for_loop.condition.expr,
                              LAMBDA v, lowered :
                                  Done(position_at_end(
                                           Emit(lowered, <<CondBr(three.b2, three.b3)>>),
                                           three.b2),
                                       three))))

StatementForLoop(for_loop) ==
    /\ Dispatching /\ nstmts < MaxStmts /\ MayNest
    /\ Entered(build_for_loop_enter(St, for_loop),
               Dispatched("ForLoop") @@ for_loop @@ [before |-> St],
               [op |-> "for", iterate |-> for_loop.iterate])

\* lines 327-329: only an expression statement is lowered
ForStep(st, iterate) ==
    IF iterate.k = "Expressions"
    THEN Lowered(build_expression(iterate.expr, st.scopes, st.types), st,
                 LAMBDA value, s : Done(s, Unit))
    ELSE Done(st, Unit)

\* the end of a for loop going back to the condition without the step
build_for_loop_leave_without_step(st, iterate, three) ==
    Done(WithScopes(position_at_end(Emit(st, <<Br(three.b1)>>), three.b3),
                    pop_block_table(st.scopes)),
         Unit)

\* build_for_loop, lines 327-332: what build_code_block returned is not looked at
build_for_loop_leave(st, iterate, three) ==
    Then(ForStep(st, iterate),
         LAMBDA u, stepped :
             Done(WithScopes(position_at_end(Emit(stepped, <<Br(three.b1)>>), three.b3),
                             pop_block_table(stepped.scopes)),
                  Unit))

ForBodyReturns ==
    /\ Returned("for")
    /\ Resumed(build_for_loop_leave(St, Top.iterate, Top.three))

\* the bodies of a translation unit of several functions are made of calls; those
\* of a unit of one function are made of every statement
BodiesOfCalls == Len(ast.function_definitions) > 1

\* the statements of `statements` that the bodies of the translation unit may hold
InBodies(statements) == IF BodiesOfCalls THEN {} ELSE statements

\* the expression statements that the bodies of the translation unit may hold
BodyExpressions == IF BodiesOfCalls THEN CallStatements ELSE ExpressionStatements

Next ==
    \/ GenerateGlobalVariable
    \/ GenerateGlobalStructure
    \/ BuildExternPrototype
    \/ BuildFunction
    \/ FunctionReturns
    \/ \E e \in BodyExpressions : StatementExpressions(e)
    \/ \E e \in InBodies(ReturnValues) : StatementReturn(e)
    \/ \E v \in InBodies(LocalVariables) : StatementVariableDefinition(v)
    \/ \E s \in InBodies({Void}) : StatementVoid
    \/ EndOfBlock
    \/ \E cond \in InBodies(Conditions), has_else \in BOOLEAN : StatementIf(cond, has_else)
    \/ IfThenReturns
    \/ IfReturns
    \/ IfElseReturns
    \/ \E cond \in InBodies(Conditions \cup {NoCondition}) : StatementWhileLoop(cond)
    \/ WhileBodyReturns
    \/ \E for_loop \in InBodies(ForLoops) : StatementForLoop(for_loop)
    \/ ForBodyReturns

Spec == Init /\ [][Next]_vars

(***************************************************************************)
(* The parser called on a while loop.                                      *)
(***************************************************************************)
InitParser ==
    /\ ast = Ast(<<>>, <<>>, <<>>, <<>>)
    /\ pc = PassFrom(ast, 1)
    /\ idx = 1
    /\ result = "running"
    /\ types = <<>>
    /\ scopes = <<{}>>
    /\ module = <<>>
    /\ blocks = <<>>
    /\ cursor = 0
    /\ ctx = [current_function |-> 0, return_variable |-> NoVariable, return_block |-> 0]
    /\ stack = <<>>
    /\ flag = "none"
    /\ stmt = [k |-> "None"]
    /\ nstmts = 0
    /\ lexer \in LexerSet
    /\ parsed = NotParsed

\* parse_while_loop is called and returns
ParseWhileLoop ==
    /\ parsed = NotParsed
    /\ LET r == parse_while_loop(lexer) IN
           /\ lexer' = r.lexer
           /\ parsed' = [err |-> r.err, value |-> r.value]
    /\ UNCHANGED <<ast, pc, idx, result, types, scopes, module, blocks, cursor, ctx, stack,
                   flag, stmt, nstmts>>

NextParser == ParseWhileLoop

SpecParser == InitParser /\ [][NextParser]_vars

(***************************************************************************)
(* Properties.                                                             *)
(***************************************************************************)
\* build_code_block has just dispatched `stmt` and stands before the next statement
JustLowered == Dispatching /\ Top.op = stmt.in /\ Top.n = stmt.pos

\* the instructions the statement `stmt` appended to the block the builder was in
Appended == SubSeq(blocks[stmt.at].insts, stmt.len + 1, Len(blocks[stmt.at].insts))

\* a block that ends in a terminator and has no terminator before its end
WellTerminated(insts) ==
    /\ insts # <<>>
    /\ IsTerminator(insts[Len(insts)])
    /\ \A i \in 1..(Len(insts) - 1) : ~IsTerminator(insts[i])

\* C1: once compile has succeeded, every basic block of every emitted function
\* ends in exactly one terminator and holds nothing after it.
C1_EveryBlockEndsInOneTerminator ==
    result = "Ok" => \A b \in 1..Len(blocks) : WellTerminated(blocks[b].insts)

AllRecordsDeclared ==
    \A i \in 1..Len(ast.globals_structures) : IsDeclared(types, ast.globals_structures[i].name)

\* C2: every record type of the AST is declared before a global initializer is
\* lowered, every global is emitted before a function is declared, and a global
\* initialised with a record of the same AST compiles.
C2_RecordsThenGlobalsThenFunctions ==
    /\ (\E s \in scopes[1] : s.kind = "var") => AllRecordsDeclared
    /\ (\E s \in scopes[1] : s.kind = "fn") =>
           \A i \in 1..Len(ast.globals_variables) : InFrame(scopes[1], ast.globals_variables[i].name)
    /\ (ast = Ast(<<GlobalP>>, <<StructP>>, <<>>, <<>>) /\ result # "running") => result = "Ok"

\* C3: an error of the store of a returned value into the return slot is the
\* error compile returns.
C3_ReturnStoreErrorPropagated ==
    (stmt.k = "Return" /\ stmt.store # "none") => result = stmt.store

\* the blocks of function f that hold a return instruction
ReturningBlocks(f) ==
    {b \in 1..Len(blocks) :
        blocks[b].fn = f /\ \E i \in 1..Len(blocks[b].insts) : blocks[b].insts[i].op = "ret"}

\* C4: a function definition has exactly one block with a return instruction, and
\* a lowered return statement stores into the return slot of the current function
\* (when it has one) and then branches to the return block of that function.
C4_ReturnStoresThenBranchesToReturnBlock ==
    /\ \A f \in 1..Len(module) :
           module[f].blocks # <<>> => Cardinality(ReturningBlocks(f)) = 1
    /\ flag = "true" =>
           /\ Appended # <<>>
           /\ Appended[Len(Appended)] = Br(ctx.return_block)
           /\ blocks[ctx.return_block].fn = ctx.current_function
           /\ ReturningBlocks(ctx.current_function) = {ctx.return_block}
           /\ ctx.return_variable.some =>
                  /\ Len(Appended) >= 2
                  /\ Appended[Len(Appended) - 1].op = "store"
                  /\ Appended[Len(Appended) - 1].ptr = ctx.return_variable.ptr

\* the field names an initializer provides are the declared ones, each once
ExactlyTheDeclaredFields(e, reg) ==
    /\ Len(e.member_initial_values) = Len(get_field_types(reg, e.structure_name))
    /\ {e.member_initial_values[i][1] : i \in 1..Len(e.member_initial_values)}
           = {get_field_types(reg, e.structure_name)[i].name :
                  i \in 1..Len(get_field_types(reg, e.structure_name))}

\* C5: a record initializer succeeds only with exactly the declared field names,
\* each once; any other set of names is the error TypeMismatched.
C5_InitializerWithOtherFieldsIsTypeMismatched ==
    (/\ stmt.k = "Expressions"
     /\ stmt.expr.k = "StructureInitializer"
     /\ IsDeclared(types, stmt.expr.structure_name)
     /\ ~ExactlyTheDeclaredFields(stmt.expr, types)) => stmt.err = "TypeMismatched"

\* the expression statement `stmt` is an assignment
AssignmentLowered ==
    stmt.k = "Expressions" /\ stmt.expr.k = "BinaryOperator" /\ stmt.expr.op = "Assign"

C7_ScopeDepthRestored ==
    /\ result # "running" => Len(scopes) = 1
    /\ (result = "running" /\ pc = "functions") => Len(scopes) = 1 + Len(stack)

\* C8: the else body starts under a scope of its own, in which nothing is
\* defined, and a first definition in it is no Redefinition.
C8_ElseBodyHasItsOwnScope ==
    /\ (Dispatching /\ Top.op = "if_else" /\ Top.n = 0) => scopes[Len(scopes)] = {}
    /\ (stmt.k = "VariableDefinition" /\ stmt.in = "if_else" /\ stmt.pos = 1) =>
           stmt.err # "Redefinition"

\* the instructions lowering the init statement of the loop `stmt` emits
InitInstructions ==
    CASE stmt.init.k = "Expressions" -> build_expression(stmt.init.expr, scopes, types).insts
      [] stmt.init.k = "VariableDefinition" ->
             <<Alloca(Pointer(module[ctx.current_function].name, stmt.init.variable.name),
                      IntegerType),
               Store(Pointer(module[ctx.current_function].name, stmt.init.variable.name), "1")>>
      [] OTHER -> <<>>

\* C9: when a for loop has run up to its body, the block that was current when
\* the loop was reached has received the lowering of the init statement, once,
\* and then the branch to the condition block.
C9_ForInitLoweredOnce ==
    (stmt.k = "ForLoop" /\ Dispatching /\ Top.op = "for" /\ Top.n = 0) =>
        /\ Len(scopes) = stmt.depth + 1
        /\ Appended = InitInstructions \o <<Br(Top.three.b1)>>

\* C10: every slot allocation is in the entry block of its function, and after a
\* local variable definition the builder is at the end of the block it was in.
C10_LocalSlotInEntryBlock ==
    /\ \A b \in 1..Len(blocks) :
           (\E i \in 1..Len(blocks[b].insts) : blocks[b].insts[i].op = "alloca") =>
               b = module[blocks[b].fn].blocks[1]
    /\ (stmt.k = "VariableDefinition" /\ stmt.err = "none" /\ JustLowered) => cursor = stmt.at

\* the record initializers among the expression statements
StructureInitializers == {e \in ExpressionStatements : e.k = "StructureInitializer"}

\* two initializers of one record supply the same (field, value) pairs, in any order
SamePairs(e1, e2) ==
    /\ e1.structure_name = e2.structure_name
    /\ Len(e1.member_initial_values) = Len(e2.member_initial_values)
    /\ \E p \in Permutations(1..Len(e1.member_initial_values)) :
           \A i \in 1..Len(e1.member_initial_values) :
               e1.member_initial_values[i] = e2.member_initial_values[p[i]]

\* the expression statement `stmt` is a record initializer that was lowered
InitializerLowered ==
    stmt.k = "Expressions" /\ stmt.expr.k = "StructureInitializer" /\ stmt.err = "none"

\* C11: the constant aggregate of a lowered record initializer holds, at every
\* declaration index, the value supplied for the field declared there, and every
\* initializer supplying the same (field, value) pairs in another order is
\* lowered to the identical aggregate.
C11_InitializerOrderIrrelevant ==
    InitializerLowered =>
        /\ \A i \in 1..Len(get_field_types(types, stmt.expr.structure_name)) :
               \E j \in 1..Len(stmt.expr.member_initial_values) :
                   /\ stmt.expr.member_initial_values[j][1]
                          = get_field_types(types, stmt.expr.structure_name)[i].name
                   /\ stmt.expr.member_initial_values[j][2].v = stmt.value.v[i]
        /\ \A e \in StructureInitializers :
               SamePairs(e, stmt.expr) =>
                   build_structure_initializer(e, scopes, types).value = stmt.value

\* build_function has returned Ok for the function the context names, and nothing
\* was lowered since
FunctionLowered == stack = <<>> /\ cursor # 0 /\ result \in {"running", "Ok"}

\* the last statement lowered was a return standing directly in the function body,
\* in the block where the cursor stands
BodyEndedInReturn == stmt.k = "Return" /\ stmt.in = "function" /\ stmt.at = cursor

\* the positions of the block of the cursor that hold a branch to the return block
BranchesToReturnBlock ==
    {i \in 1..Len(blocks[cursor].insts) : blocks[cursor].insts[i] = Br(ctx.return_block)}

\* C12: when function lowering is over the block where the cursor stands holds
\* exactly one branch to the return block, as its last instruction: the one
\* function lowering emits when the body was not terminated by a return, and the
\* one of the return statement, with no further branch, when it was.
C12_OneBranchToReturnBlock ==
    FunctionLowered =>
        /\ BranchesToReturnBlock = {Len(blocks[cursor].insts)}
        /\ BodyEndedInReturn =>
               /\ Appended # <<>>
               /\ \A i \in 1..Len(Appended) : IsTerminator(Appended[i]) <=> i = Len(Appended)

\* a function whose body is an if with a returning arm: the body is not terminated
C12_FunctionLoweredAfterIf ==
    /\ FunctionLowered
    /\ stmt.k = "If" /\ stmt.ended /\ stmt.three.b3 = cursor
    /\ stmt.arms[1].returned = "true"

\* the statement `stmt` is an if, a while loop or a for loop that lowers a
\* condition expression, here ConditionOf
HasCondition ==
    /\ stmt.k \in {"If", "WhileLoop", "ForLoop"} /\ ~stmt.ended
    /\ stmt.k = "WhileLoop" => stmt.cond # NoCondition
    /\ stmt.k = "ForLoop" => stmt.condition.k = "Expressions"

ConditionOf == IF stmt.k = "ForLoop" THEN stmt.condition.expr ELSE stmt.cond

\* the value read from the condition of `stmt`
ConditionValue == AndThen(build_expression(ConditionOf, scopes, types), read_expression_value)

\* the condition of `stmt` is read without an error, with a type that is not Bool
ConditionNotBool ==
    HasCondition /\ ConditionValue.err = "none" /\ ConditionValue.value.ty # BoolType

\* the instructions emitted since `stmt` was reached: those appended to the block
\* the builder was in and those of the blocks created since
EmittedSince ==
    {Appended[i] : i \in 1..Len(Appended)}
    \cup UNION {{blocks[b].insts[i] : i \in 1..Len(blocks[b].insts)} :
                    b \in (stmt.nblocks + 1)..Len(blocks)}

\* C13: the condition of an if, of a while loop or of a for loop whose value is
\* read with a type other than Bool makes lowering fail with TypeMismatched, and
\* the statement emits no conditional branch.
C13_ConditionNotBoolIsTypeMismatched ==
    ConditionNotBool =>
        /\ stmt.err = "TypeMismatched"
        /\ result = "TypeMismatched"
        /\ \A i \in EmittedSince : i.op # "condbr"

\* a for loop with the condition `1`
C13_ForLoopWithIntegerCondition == ConditionNotBool /\ stmt.k = "ForLoop" /\ stmt.err # "none"

\* the expression statement `stmt` is an array initializer
ArrayLowered == stmt.k = "Expressions" /\ stmt.expr.k = "ArrayInitializer"

\* the value read from element i of the array initializer `stmt`
ElementValue(i) ==
    AndThen(build_expression(stmt.expr.elements[i], scopes, types), read_expression_value)

\* C14: an array initializer without elements is the error NotAllowZeroLengthArray;
\* one whose elements are all read, one of them with another type than the
\* first, is the error TypeMismatched; one whose n elements are all read with the
\* type T of the first yields an RValue of type Array{T, n}.
C14_ArrayInitializer ==
    ArrayLowered =>
        IF stmt.expr.elements = <<>> THEN stmt.err = "NotAllowZeroLengthArray"
        ELSE (\A i \in 1..Len(stmt.expr.elements) : ElementValue(i).err = "none") =>
                 IF \E i \in 1..Len(stmt.expr.elements) :
                        ElementValue(i).value.ty # ElementValue(1).value.ty
                 THEN stmt.err = "TypeMismatched"
                 ELSE /\ stmt.err = "none"
                      /\ stmt.value.kind = "Right"
                      /\ stmt.value.ty = ArrayType(ElementValue(1).value.ty,
                                                   Len(stmt.expr.elements))

\* the array initializer [1, 2.0] has been refused
C14_MixedArrayLowered ==
    /\ ArrayLowered /\ Len(stmt.expr.elements) = 2
    /\ ElementValue(1).value.ty # ElementValue(2).value.ty
    /\ stmt.err = "TypeMismatched"

\* the control statement `stmt` of kind k has been lowered to its end
Ended(k) == stmt.k = k /\ stmt.ended /\ stmt.err = "none"

\* the last instruction of block b
LastOf(b) == blocks[b].insts[Len(blocks[b].insts)]

\* instruction i transfers control to block b
BranchesTo(i, b) ==
    \/ i.op = "br" /\ i.target = b
    \/ i.op = "condbr" /\ (i.then = b \/ i.else = b)

\* the blocks holding a branch to block b
Predecessors(b) ==
    {p \in 1..Len(blocks) : \E i \in 1..Len(blocks[p].insts) : BranchesTo(blocks[p].insts[i], b)}

\* the body `arm` recorded of `stmt` got the branch to block b, and nothing else,
\* after its last instruction
ArmBranchesTo(arm, b) ==
    /\ Len(blocks[arm.end].insts) = arm.len + 1
    /\ LastOf(arm.end) = Br(b)

\* the block where the body `arm` ended is as the body left it
ArmUntouched(arm) == Len(blocks[arm.end].insts) = arm.len

\* C15: when an if has been lowered, the block that was current ends in the
\* conditional branch to then (true) and else (false); an arm whose body was not
\* terminated ends in a branch to merge and an arm whose body ended in return got
\* none; without an else body the else block is the branch to merge alone; and
\* merge has no other predecessor.
C15_IfEdges ==
    Ended("If") =>
        /\ LastOf(stmt.at) = CondBr(stmt.three.b1, stmt.three.b2)
        /\ \A a \in 1..Len(stmt.arms) :
               IF stmt.arms[a].returned = "false"
               THEN ArmBranchesTo(stmt.arms[a], stmt.three.b3)
               ELSE ArmUntouched(stmt.arms[a])
        /\ Len(stmt.arms) = IF stmt.has_else THEN 2 ELSE 1
        /\ ~stmt.has_else => blocks[stmt.three.b2].insts = <<Br(stmt.three.b3)>>
        /\ Predecessors(stmt.three.b3)
               = {stmt.arms[a].end : a \in {a \in 1..Len(stmt.arms) : stmt.arms[a].returned = "false"}}
                 \cup (IF stmt.has_else THEN {} ELSE {stmt.three.b2})

\* an if whose then body ended in return and whose else body did not
C15_IfWithReturningThenLowered ==
    /\ Ended("If") /\ stmt.has_else
    /\ stmt.arms[1].returned = "true" /\ stmt.arms[2].returned = "false"

\* C16: when a while loop has been lowered, the block that was current got the
\* branch to cond; cond ends in the conditional branch to body (true) and after
\* (false) when there is a condition and is the branch to body alone when there
\* is none; the block where the body ended got the branch back to cond; and
\* after has no predecessor but cond.
C16_WhileEdges ==
    Ended("WhileLoop") =>
        /\ Len(blocks[stmt.at].insts) = stmt.len + 1
        /\ LastOf(stmt.at) = Br(stmt.three.b1)
        /\ IF stmt.cond = NoCondition
           THEN blocks[stmt.three.b1].insts = <<Br(stmt.three.b2)>>
           ELSE /\ LastOf(stmt.three.b1) = CondBr(stmt.three.b2, stmt.three.b3)
                /\ WellTerminated(blocks[stmt.three.b1].insts)
        /\ ArmBranchesTo(stmt.arms[1], stmt.three.b1)
        /\ Predecessors(stmt.three.b3) \subseteq {stmt.three.b1}

\* a while loop with a condition whose body ended in another block than it began
C16_WhileWithBodyLowered ==
    /\ Ended("WhileLoop") /\ stmt.cond # NoCondition
    /\ stmt.arms[1].end # stmt.three.b2

\* the instructions of the step of the for loop `stmt`: those of its expression,
\* lowered with the symbols of the function still being lowered
StepInstructions ==
    IF stmt.iterate.k = "Expressions"
    THEN build_expression(stmt.iterate.expr, scopes, types).insts
    ELSE <<>>

\* what was appended to the block where the body of `stmt` ended
AppendedToBody ==
    SubSeq(blocks[stmt.arms[1].end].insts, stmt.arms[1].len + 1,
           Len(blocks[stmt.arms[1].end].insts))

\* C17: when a for loop has been lowered, the block that was current ends in the
\* branch to cond; cond ends in the conditional branch to body (true) and after
\* (false) and is the only predecessor of body, so the condition is evaluated
\* before each execution of the body; the step expression is lowered once, after
\* the body and in the block where the body ended, followed by the branch to cond.
C17_ForOrder ==
    Ended("ForLoop") =>
        /\ LastOf(stmt.at) = Br(stmt.three.b1)
        /\ LastOf(stmt.three.b1) = CondBr(stmt.three.b2, stmt.three.b3)
        /\ WellTerminated(blocks[stmt.three.b1].insts)
        /\ Predecessors(stmt.three.b2) = {stmt.three.b1}
        /\ AppendedToBody # <<>>
        /\ \A i \in 1..Len(AppendedToBody) :
               AppendedToBody[i] = Br(stmt.three.b1) <=> i = Len(AppendedToBody)
        /\ (stack # <<>> /\ blocks[stmt.at].fn = ctx.current_function) =>
               /\ AppendedToBody = StepInstructions \o <<Br(stmt.three.b1)>>
               /\ stmt.iterate.k = "Expressions" => StepInstructions # <<>>

\* a for loop with a step expression whose body holds a statement that emits
C17_ForWithStepLowered ==
    /\ Ended("ForLoop") /\ stmt.iterate.k = "Expressions"
    /\ stmt.arms[1].end = stmt.three.b2 /\ stmt.arms[1].len > 0

\* lowering of the if, while or for statement `stmt` has just returned Ok to
\* build_code_block
ControlLowered ==
    stmt.k \in {"If", "WhileLoop", "ForLoop"} /\ stmt.err = "none" /\ JustLowered

\* C18 (as stated): whenever lowering of an if, while or for statement returns
\* successfully the cursor is at the end of the third block the statement created
\* (merge, after), and that block holds no instruction yet.
C18_CursorAtEmptyLastBlock ==
    ControlLowered =>
        /\ cursor = stmt.nblocks + 3
        /\ blocks[cursor].insts = <<>>

\* C18 (amended): whenever lowering of an if, of a while loop, or of a for loop
\* whose condition is an expression statement returns successfully, the cursor
\* is at the end of the statement's merge or after block, created by the
\* statement, and that block holds no instruction yet.
C18_CursorAtEmptyLastBlockOfLoweredStatement ==
    (ControlLowered /\ (stmt.k = "ForLoop" => stmt.condition.k = "Expressions")) =>
        /\ stmt.ended
        /\ stmt.three.b3 > stmt.nblocks
        /\ cursor = stmt.three.b3
        /\ blocks[cursor].insts = <<>>

\* an if with an else body has just been lowered
C18_IfWithElseJustLowered == ControlLowered /\ stmt.k = "If" /\ stmt.has_else /\ stmt.ended

\* a function is being lowered: the context is the one build_function set
InFunction == stack # <<>> /\ result = "running"

\* the instructions of the entry block of the function being lowered
EntryInstructions == blocks[module[ctx.current_function].blocks[1]].insts

\* build_code_block has just been called for the body of a function
BodyReached == Dispatching /\ Len(stack) = 1 /\ Top.op = "function" /\ Top.n = 0

\* C19: while a function is lowered its context has a return slot exactly when
\* its return type is not void; the slot is allocated in the entry block; the
\* return block holds exactly the load of the slot and the return of the loaded
\* value, or exactly the return of nothing for a void function; and when the body
\* is reached the cursor is in the entry block, not in the return block.
C19_ReturnSlotAndReturnBlock ==
    InFunction =>
        /\ ctx.return_variable.some <=> module[ctx.current_function].ret # NoType
        /\ ctx.return_variable.some =>
               /\ ctx.return_variable.ty = module[ctx.current_function].ret
               /\ \E i \in 1..Len(EntryInstructions) :
                      EntryInstructions[i] = Alloca(ctx.return_variable.ptr, ctx.return_variable.ty)
        /\ blocks[ctx.return_block].fn = ctx.current_function
        /\ blocks[ctx.return_block].insts =
               IF module[ctx.current_function].ret # NoType
               THEN <<Load(ctx.return_variable.ptr), Ret(TRUE)>>
               ELSE <<Ret(FALSE)>>
        /\ BodyReached =>
               /\ cursor = module[ctx.current_function].blocks[1]
               /\ cursor # ctx.return_block

\* the body of a function that returns a value is reached
C19_BodyOfValueFunctionReached ==
    InFunction /\ BodyReached /\ module[ctx.current_function].ret # NoType

\* the place of block b in the layout of its function
Place(b) == PositionOf(module[blocks[b].fn].blocks, b)

\* the control statement `stmt` has just created its blocks and reached its first
\* body, which waits in the frame on top of the stack
JustEntered ==
    /\ stmt.k \in {"If", "WhileLoop", "ForLoop"} /\ ~stmt.ended /\ stmt.err = "none"
    /\ stmt.three # Unit
    /\ Dispatching /\ Top.op \in {"if_then", "while", "for"} /\ Top.n = 0
    /\ Top.three = stmt.three

\* the three blocks of `stmt` are new, created in the order b1, b2, b3, and stand
\* in that order right after the block that was current
ThreeAfterCurrent ==
    /\ stmt.three.b1 = stmt.nblocks + 1
    /\ stmt.three.b2 = stmt.nblocks + 2
    /\ stmt.three.b3 = stmt.nblocks + 3
    /\ Place(stmt.three.b1) = Place(stmt.at) + 1
    /\ Place(stmt.three.b2) = Place(stmt.at) + 2
    /\ Place(stmt.three.b3) = Place(stmt.at) + 3

\* the blocks created before `stmt` by the body `stmt` stands in: those younger than
\* the blocks of the enclosing statement, or than the return block of the function
EarlierInBody ==
    IF stack[Len(stack) - 1].op = "function"
    THEN (stack[Len(stack) - 1].return_block + 1)..stmt.nblocks
    ELSE (stack[Len(stack) - 1].three.b3 + 1)..stmt.nblocks

\* in `layout` the blocks numbered from..to stand after place lo and before place hi
Between(layout, from, to, lo, hi) ==
    \A i \in 1..Len(layout) : (from <= layout[i] /\ layout[i] <= to) => (lo < i /\ i < hi)

\* the blocks created while the bodies of the frame fr were lowered (blocks are
\* numbered as they are created) lie between the block of their body and the next
\* block of the statement of fr
NestedBetween(fr) ==
    CASE fr.op = "function" -> TRUE
      [] fr.op = "if_then" ->
            Between(module[ctx.current_function].blocks, fr.three.b3 + 1, Len(blocks),
                    Place(fr.three.b1), Place(fr.three.b2))
      [] fr.op = "if_else" ->
            /\ Between(module[ctx.current_function].blocks, fr.three.b3 + 1, fr.arms[1].nblocks,
                       Place(fr.three.b1), Place(fr.three.b2))
            /\ Between(module[ctx.current_function].blocks, fr.arms[1].nblocks + 1, Len(blocks),
                       Place(fr.three.b2), Place(fr.three.b3))
      [] OTHER ->
            Between(module[ctx.current_function].blocks, fr.three.b3 + 1, Len(blocks),
                    Place(fr.three.b2), Place(fr.three.b3))

\* C20: the three blocks of an if and of a loop are created in their order right
\* after the block current when the statement is reached, behind every block of
\* the earlier statements of the same body; they and the blocks created before
\* them in the bodies of the enclosing statements lie between the block of that
\* body and the next block of the enclosing statement; and in every function the
\* entry block is first and the return block last.
C20_LayoutFollowsSourceOrder ==
    /\ JustEntered =>
           /\ ThreeAfterCurrent
           /\ \A x \in EarlierInBody : Place(x) < Place(stmt.three.b1)
           /\ \A d \in 1..(Len(stack) - 1) : NestedBetween(stack[d])
    /\ \A f \in 1..Len(module) :
           module[f].blocks # <<>> =>
               /\ \A i \in 1..Len(module[f].blocks) : module[f].blocks[1] <= module[f].blocks[i]
               /\ blocks[module[f].blocks[1]].fn = f
               /\ module[f].blocks[Len(module[f].blocks)] = module[f].blocks[1] + 1
    /\ InFunction =>
           module[ctx.current_function].blocks[Len(module[ctx.current_function].blocks)]
               = ctx.return_block

\* a control statement is entered in a body that holds an earlier control
\* statement, inside the body of an enclosing one
C20_SecondNestedStatementEntered ==
    JustEntered /\ Len(stack) >= 3 /\ EarlierInBody # {}

\* the expression statement `stmt` is a call lowered in the body of the function
\* being lowered, or that has ended compile
CallLowered ==
    /\ stmt.k = "Expressions" /\ stmt.expr.k = "CallExpression"
    /\ blocks[stmt.at].fn = ctx.current_function

\* the place of the function being lowered in function_definitions: the extern
\* prototypes come before it in the module
CurrentDefinition == ctx.current_function - Len(ast.extern_functions)

\* the names a call in the body of definition k may use: every extern function
\* and the definitions 1..k
VisibleTo(k) ==
    {ast.extern_functions[i].name : i \in 1..Len(ast.extern_functions)}
    \cup {ast.function_definitions[j].prototype.name : j \in 1..k}

\* C21: while the body of the k-th function definition is lowered, a call of an
\* extern function, of one of the definitions 1..k-1 or of definition k itself
\* resolves (a call without arguments of a function without parameters is
\* lowered to a call instruction), and a call of a function defined later, or
\* defined nowhere, fails with an error.
C21_CallsSeeExternsAndDefinitionsSoFar ==
    CallLowered =>
        IF stmt.expr.function_name \in VisibleTo(CurrentDefinition)
        THEN /\ stmt.err # "NotFound"
             /\ stmt.expr.params = <<>> =>
                    /\ stmt.err = "none"
                    /\ Appended # <<>>
                    /\ Appended[1] = Call(stmt.expr.function_name)
        ELSE /\ stmt.err # "none"
             /\ result = stmt.err
             /\ Appended = <<>>

\* the second definition calls the first
C21_EarlierDefinitionCalled ==
    /\ CallLowered /\ CurrentDefinition = 2
    /\ stmt.expr.function_name = ast.function_definitions[1].prototype.name
    /\ stmt.err = "none"

\* the last statement lowered is a return standing directly in the code block
\* that the frame on top of the stack waits for
ReturnInBlock ==
    /\ stmt.k = "Return" /\ stmt.err = "none"
    /\ stack # <<>> /\ result = "running"
    /\ Top.op = stmt.in /\ Top.n = stmt.pos

\* C22: a code block that lowers a return statement returns at once with the
\* flag true, so no statement after the return is lowered in it; the flag is
\* true only when a return standing directly in the block was lowered, and a
\* block that ends otherwise (an if whose arms both return being its last
\* statement) reports false; and no statement is ever lowered into a block
\* that a return, or any other terminator, has ended.
C22_BlockStopsAtFirstReturn ==
    /\ ReturnInBlock => flag = "true"
    /\ flag = "true" => ReturnInBlock
    /\ (flag = "false" /\ Top.n > 0) =>
           /\ stmt.in = Top.op /\ stmt.pos = Top.n
           /\ stmt.k # "Return"
    /\ (stmt.k # "None" /\ stmt.len > 0) => ~IsTerminator(blocks[stmt.at].insts[stmt.len])

\* a block whose last statement is an if with both arms returning has ended
C22_BlockEndedByReturningIf ==
    /\ flag = "false"
    /\ stmt.k = "If" /\ stmt.ended /\ stmt.has_else
    /\ stmt.arms[1].returned = "true" /\ stmt.arms[2].returned = "true"

\* the last statement lowered is a for loop whose condition statement is not
\* an expression statement, and the code block it stands in goes on
ForLoopWithoutCondition ==
    /\ stmt.k = "ForLoop" /\ stmt.condition.k # "Expressions"
    /\ JustLowered

\* C23: a for loop whose condition statement is not an expression statement is
\* lowered to nothing: lowering succeeds, no block is created, nothing of the
\* init statement, the body or the step is lowered, and the module, the blocks,
\* the scope stack, the cursor and the context are what they were before it.
C23_ForLoopWithoutConditionIsNothing ==
    ForLoopWithoutCondition =>
        /\ stmt.err = "none" /\ result = "running"
        /\ stmt.three = Unit
        /\ Len(blocks) = stmt.nblocks
        /\ Appended = <<>>
        /\ scopes = stmt.before.scopes
        /\ cursor = stmt.at
        /\ St = stmt.before

\* a for loop with an init statement and a step but no condition has been lowered
C23_ForLoopWithoutConditionLowered ==
    /\ ForLoopWithoutCondition
    /\ stmt.init.k = "VariableDefinition" /\ stmt.iterate.k = "Expressions"

\* the calls of parse_while_loop in the order of the source
ParseOrder == <<"keyword", "left_par", "condition", "right_par", "code_block">>
\* what the lexer answers the call `what` with
Answer(what) ==
    CASE what = "keyword" -> lexer.keyword
      [] what = "left_par" -> lexer.left_par
      [] what = "condition" -> lexer.condition
      [] what = "right_par" -> lexer.right_par
      [] what = "code_block" -> lexer.code_block
\* the calls other than that of the condition that fail, by their place in the order
FailingSteps == {i \in {1, 2, 4, 5} : Answer(ParseOrder[i]).err # "none"}
\* the call at place i is made: none of the four other calls before it fails
Called(i) == \A j \in FailingSteps : j >= i
ConditionFailed == lexer.condition.err # "none"

\* C24: parse_while_loop calls in order the keyword, the left parenthesis, the
\* condition, the right parenthesis and the code block; it returns a WhileLoop
\* exactly when none of the four calls other than the condition fails, its
\* condition being None when parse_expression failed and the expression
\* otherwise; when one of the four fails the error of the first of them is
\* returned, no WhileLoop is produced and no later call is made.
C24_OnlyConditionFailureIsSwallowed ==
    parsed # NotParsed =>
        /\ parsed.err = "none" <=> FailingSteps = {}
        /\ FailingSteps = {} =>
               parsed.value = WhileLoop(IF ConditionFailed THEN NoCondition
                                        ELSE lexer.condition.value,
                                        lexer.code_block.value)
        /\ FailingSteps # {} =>
               /\ parsed.value = NoWhileLoop
               /\ \E i \in FailingSteps : /\ Called(i)
                                          /\ parsed.err = Answer(ParseOrder[i]).err
        /\ lexer.consumed =
               SelectSeq(ParseOrder,
                         LAMBDA what : /\ Answer(what).err = "none"
                                       /\ \E i \in 1..5 : ParseOrder[i] = what /\ Called(i))

\* a while loop whose condition failed to parse has been parsed into an unconditional loop
C24_LoopParsedWithoutCondition ==
    /\ parsed # NotParsed /\ parsed.err = "none"
    /\ ConditionFailed
    /\ parsed.value.condition = NoCondition
    /\ lexer.consumed = <<"keyword", "left_par", "right_par", "code_block">>

====
